---- MODULE Spec2Model ----
(***************************************************************************)
(* BusFlow: the booking ledger and the seat allocation logic of            *)
(* app/controllers/booking_controller.py over the store calls of           *)
(* app/services/supabase_service.py.                                       *)
(*                                                                         *)
(* A timestamp is a number of seconds: day * SecondsPerDay + second of the *)
(* day.  datetime.now().isoformat() is the timestamp of the clock `now`;   *)
(* a fraction of a second never changes the outcome of the comparisons the *)
(* store makes against whole-second literals, so whole seconds are kept.   *)
(***************************************************************************)
EXTENDS Integers, Sequences, FiniteSets, TLC

VARIABLES ledger, nextId, now, batch, inflight, ret,
          fleet, profiles, session, tokens

vars == <<ledger, nextId, now, batch, inflight, ret,
          fleet, profiles, session, tokens>>

(***************************************************************************)
(* Bounds of the model.                                                    *)
(***************************************************************************)
MaxDay == 2          \* calendar days 1..MaxDay
MaxBookings == 2     \* booking ids 1..MaxBookings are ever issued
MaxBatchBookings == 6  \* ids issued where seat lists are booked
MaxBatchLen == 6     \* longest seat list handed to create_multiple_bookings
MaxRouteLen == 3     \* longest route handed to Bus.is_valid_trip
MaxBuses == 3        \* bus ids b1..bMaxBuses are ever issued

(***************************************************************************)
(* Program constants.                                                      *)
(***************************************************************************)
MAX_SEATS_PER_BOOKING == 5
SEATS_PER_ROW == 4
LAST_ROW_SEATS == 5
LastSecond == 86399                 \* the literal 'T23:59:59'
SEAT_ROWS == <<"A", "B", "C", "D", "E", "F", "G", "H", "I", "J">>
LAST_ROW == "K"
BOOKING_STATUS_CONFIRMED == "CONFIRMED"
BOOKING_STATUS_CANCELLED == "CANCELLED"

SecondsPerDay == LastSecond + 1

(***************************************************************************)
(* Inputs.                                                                 *)
(***************************************************************************)
Users == {"u1", "u2"}
Buses == {"b1", "b2"}
Seats == {"A1", "K5"}
Ids == 1..MaxBookings
Procs == {1, 2}
Days == 1..MaxDay
\* seconds of the day at which the clock is observed: 00:00:00, which
\* stands for every time before 23:59:59, and the second 23:59:59 itself
ClockSeconds == {0, LastSecond}
Instants == {d * SecondsPerDay + s : d \in Days, s \in ClockSeconds}
\* seat lists a batch request may carry: every list of up to
\* MAX_SEATS_PER_BOOKING labels, and longer lists of two shapes
SeatLists ==
    UNION {[1..n -> Seats] : n \in 1..MAX_SEATS_PER_BOOKING}
    \cup {[i \in 1..n |-> "A1"] : n \in (MAX_SEATS_PER_BOOKING + 1)..MaxBatchLen}
    \cup {[i \in 1..n |-> IF i % 2 = 1 THEN "A1" ELSE "K5"] :
            n \in (MAX_SEATS_PER_BOOKING + 1)..MaxBatchLen}

\* the fleet: the route of each bus, in travel order
Route(b) == IF b = "b1" THEN <<"Uttara", "Banani", "Farmgate">>
                        ELSE <<"Gabtoli", "Farmgate", "Motijheel">>
DEFAULT_TICKET_PRICE == 50
DEFAULT_TOTAL_SEATS == 40
USER_ROLE == "USER"
DRIVER_ROLE == "DRIVER"
ADMIN_ROLE == "ADMIN"
BUS_STATUS_ACTIVE == "ACTIVE"
BUS_STATUS_MAINTENANCE == "MAINTENANCE"
BUS_STATUS_DECOMMISSIONED == "DECOMMISSIONED"

\* None, for a driver_id, a current user or a saved access token
None == ""

\* a row of the 'buses' table.  A text a request carries (a name) is the
\* sequence of its characters.
BusRow(name, route, driver_id, price, status) ==
    [name |-> name, route |-> route, total_seats |-> DEFAULT_TOTAL_SEATS,
     driver_id |-> driver_id, price |-> price, status |-> status]

\* the store before the requests of a run: two buses in service, two
\* passengers, a driver and an administrator
SeedFleet ==
    [b \in Buses |->
        BusRow(<<"B", "u", "s">>, Route(b), None, DEFAULT_TICKET_PRICE,
               BUS_STATUS_ACTIVE)]

SeedProfiles ==
    [a \in Users \cup {"d1", "a1"} |->
        IF a \in Users THEN USER_ROLE
        ELSE IF a = "d1" THEN DRIVER_ROLE ELSE ADMIN_ROLE]

(***************************************************************************)
(* Dates.                                                                  *)
(***************************************************************************)
\* date_str.split('T')[0]: the day of a timestamp, read by the store as
\* midnight of that day
DatePrefix(date) == (date \div SecondsPerDay) * SecondsPerDay

\* the calendar day of a timestamp
DayOf(date) == date \div SecondsPerDay

\* .gte('date', date_prefix).lt('date', date_prefix + 'T23:59:59')
InDateWindow(date, date_str) ==
    /\ date >= DatePrefix(date_str)
    /\ date < DatePrefix(date_str) + LastSecond

(***************************************************************************)
(* Bus.is_valid_trip                                                       *)
(***************************************************************************)
InRoute(route, stop) == \E i \in 1..Len(route) : route[i] = stop

\* list.index: the first position holding the stop
IndexOf(route, stop) ==
    CHOOSE i \in 1..Len(route) :
        /\ route[i] = stop
        /\ \A j \in 1..(i - 1) : route[j] # stop

is_valid_trip(route, source, destination) ==
    IF ~InRoute(route, source) \/ ~InRoute(route, destination)
    THEN FALSE
    ELSE IndexOf(route, source) < IndexOf(route, destination)

(***************************************************************************)
(* Store queries (SupabaseService).                                        *)
(***************************************************************************)
\* a variant without the .eq('user_id', user_id) filter
get_bookings_by_user_unfiltered(led, user_id) == DOMAIN led

\* get_bookings_by_user: the ids of the rows whose user_id is the caller's
get_bookings_by_user(led, user_id) ==
    {i \in DOMAIN led : led[i].user_id = user_id}

\* get_bus_bookings_for_date: CONFIRMED rows of the bus inside the window
get_bus_bookings_for_date(led, bus_id, date_str) ==
    {i \in DOMAIN led :
        /\ led[i].bus_id = bus_id
        /\ led[i].status = BOOKING_STATUS_CONFIRMED
        /\ InDateWindow(led[i].date, date_str)}

\* the existence check of SupabaseService.create_booking
ExistingBookings(led, booking_data) ==
    {i \in DOMAIN led :
        /\ led[i].bus_id = booking_data.bus_id
        /\ led[i].seat_number = booking_data.seat_number
        /\ led[i].status = BOOKING_STATUS_CONFIRMED
        /\ InDateWindow(led[i].date, booking_data.date)}

\* table('bookings').insert(booking_data): the store adds the row under a
\* fresh id
InsertRow(led, id, booking_data) ==
    [i \in DOMAIN led \cup {id} |-> IF i = id THEN booking_data ELSE led[i]]

\* a variant without the .eq('id', booking_id) filter
UpdateCancelledAllRows(led, booking_id) ==
    [i \in DOMAIN led |->
        [led[i] EXCEPT !.status = BOOKING_STATUS_CANCELLED]]

\* a variant that flips the status of the row
UpdateToggled(led, booking_id) ==
    [i \in DOMAIN led |->
        IF i = booking_id
        THEN [led[i] EXCEPT !.status =
                IF @ = BOOKING_STATUS_CANCELLED
                THEN BOOKING_STATUS_CONFIRMED
                ELSE BOOKING_STATUS_CANCELLED]
        ELSE led[i]]

\* a variant that removes a row that is CANCELLED already
UpdateCancelledPurging(led, booking_id) ==
    IF booking_id \in DOMAIN led
       /\ led[booking_id].status = BOOKING_STATUS_CANCELLED
    THEN [i \in DOMAIN led \ {booking_id} |-> led[i]]
    ELSE [i \in DOMAIN led |->
            IF i = booking_id
            THEN [led[i] EXCEPT !.status = BOOKING_STATUS_CANCELLED]
            ELSE led[i]]

\* table('bookings').update({'status': 'CANCELLED'}).eq('id', booking_id)
UpdateCancelled(led, booking_id) ==
    [i \in DOMAIN led |->
        IF i = booking_id
        THEN [led[i] EXCEPT !.status = BOOKING_STATUS_CANCELLED]
        ELSE led[i]]

\* table('bookings').delete().eq('id', booking_id)
DeleteRow(led, booking_id) ==
    [i \in DOMAIN led \ {booking_id} |-> led[i]]

(***************************************************************************)
(* BookingController.get_occupied_seats / get_seat_layout                  *)
(***************************************************************************)
get_occupied_seats(led, bus_id, date_str) ==
    {led[i].seat_number : i \in get_bus_bookings_for_date(led, bus_id, date_str)}

SeatLabel(row, seat_num) == row \o ToString(seat_num)

RegularEntry(k, occupied) ==
    LET row == SEAT_ROWS[((k - 1) \div SEATS_PER_ROW) + 1]
        seat_num == ((k - 1) % SEATS_PER_ROW) + 1
    IN  [number |-> SeatLabel(row, seat_num), row |-> row,
         position |-> seat_num,
         isOccupied |-> SeatLabel(row, seat_num) \in occupied,
         isLastRow |-> FALSE]

LastRowEntry(seat_num, occupied) ==
    [number |-> SeatLabel(LAST_ROW, seat_num), row |-> LAST_ROW,
     position |-> seat_num,
     isOccupied |-> SeatLabel(LAST_ROW, seat_num) \in occupied,
     isLastRow |-> TRUE]

\* a variant that lays out as many seats as the bus declares (total_seats)
get_seat_layout_by_capacity(led, bus_id, date_str) ==
    LET occupied == get_occupied_seats(led, bus_id, date_str)
        regular == [k \in 1..(Len(SEAT_ROWS) * SEATS_PER_ROW) |->
                        RegularEntry(k, occupied)]
        last == [n \in 1..LAST_ROW_SEATS |-> LastRowEntry(n, occupied)]
    IN  SubSeq(regular \o last, 1, DEFAULT_TOTAL_SEATS)

get_seat_layout(led, bus_id, date_str) ==
    LET occupied == get_occupied_seats(led, bus_id, date_str)
        regular == [k \in 1..(Len(SEAT_ROWS) * SEATS_PER_ROW) |->
                        RegularEntry(k, occupied)]
        last == [n \in 1..LAST_ROW_SEATS |-> LastRowEntry(n, occupied)]
    IN  regular \o last

(***************************************************************************)
(* Values a request carries.  A text is the sequence of its characters; a   *)
(* price is whatever the JSON body held: an integer, a fraction, a text,    *)
(* or nothing.                                                              *)
(***************************************************************************)
IsSpace(c) == c \in {" ", "\t", "\n"}

\* str.strip(): the text without its leading and trailing white space
Strip(text) ==
    LET kept == {i \in 1..Len(text) : ~IsSpace(text[i])}
    IN  IF kept = {} THEN <<>>
        ELSE LET first == CHOOSE i \in kept : \A j \in kept : i <= j
                 last == CHOOSE i \in kept : \A j \in kept : j <= i
             IN  SubSeq(text, first, last)

Digits == <<"0", "1", "2", "3", "4", "5", "6", "7", "8", "9">>
IsDigit(c) == \E d \in 1..Len(Digits) : Digits[d] = c
DigitValue(c) == (CHOOSE d \in 1..Len(Digits) : Digits[d] = c) - 1

RECURSIVE DigitsValue(_)
DigitsValue(ds) ==
    IF ds = <<>> THEN 0
    ELSE DigitsValue(SubSeq(ds, 1, Len(ds) - 1)) * Len(Digits)
            + DigitValue(ds[Len(ds)])

IntPrice(n) == [kind |-> "int", v |-> n]
FloatPrice(num, den) == [kind |-> "float", num |-> num, den |-> den]
TextPrice(text) == [kind |-> "str", text |-> text]
NoPrice == [kind |-> "none"]

Raised(exception) == [raises |-> exception, v |-> 0]
Returned(n) == [raises |-> "", v |-> n]

\* the truth value Python gives a price: 0, 0.0, '' and None are false
Truthy(price) ==
    CASE price.kind = "int" -> price.v # 0
      [] price.kind = "float" -> price.num # 0
      [] price.kind = "str" -> price.text # <<>>
      [] OTHER -> FALSE

\* int(text): white space around, an optional sign, then digits only
IntOfText(text) ==
    LET t == Strip(text)
        signed == t # <<>> /\ t[1] \in {"+", "-"}
        ds == IF signed THEN Tail(t) ELSE t
    IN  IF ds = <<>> \/ \E i \in 1..Len(ds) : ~IsDigit(ds[i])
        THEN Raised("ValueError")
        ELSE IF signed /\ t[1] = "-"
        THEN Returned(0 - DigitsValue(ds))
        ELSE Returned(DigitsValue(ds))

\* int(price): an integer is itself, a fraction is cut towards zero, None
\* raises TypeError, a text is parsed
PyInt(price) ==
    CASE price.kind = "int" -> Returned(price.v)
      [] price.kind = "float" ->
            IF price.num >= 0
            THEN Returned(price.num \div price.den)
            ELSE Returned(0 - ((0 - price.num) \div price.den))
      [] price.kind = "str" -> IntOfText(price.text)
      [] OTHER -> Raised("TypeError")

(***************************************************************************)
(* BookingController.create_booking                                        *)
(***************************************************************************)
BookingData(user_id, bus_id, seat_number, source, destination, price, date) ==
    [user_id |-> user_id, bus_id |-> bus_id, seat_number |-> seat_number,
     source |-> source, destination |-> destination, date |-> date,
     price |-> price, status |-> BOOKING_STATUS_CONFIRMED]

MsgAlreadyBooked(seat_number) == <<"Seat", seat_number, "is already booked.">>
MsgFailed == "Failed to create booking"
MsgNotFound == "Booking not found or access denied."
MsgMaxSeats == "Cannot book more than 5 seats at once."

\* what the store does with the calls of one request: it answers them, or
\* one of them raises
StoreOutcomes == {"ok", "error"}

\* what a list query of the store returns to its caller: the rows, or,
\* when the call raises, the [] of the except branch, which is what the
\* query gives on an empty table
StoreRead(led, store) == IF store = "error" THEN << >> ELSE led

\* the outcome of one create_booking on a ledger: the ledger afterwards, the
\* id of the booking created (0 when none) and the error message.  A call
\* to the store that raises is reported as a BookingError and nothing is
\* written.
CreateOutcome(led, id, booking_data, store) ==
    IF store = "error"
    THEN [ledger |-> led, id |-> 0, error |-> <<MsgFailed>>]
    ELSE IF ExistingBookings(led, booking_data) # {}
    THEN [ledger |-> led, id |-> 0,
          error |-> MsgAlreadyBooked(booking_data.seat_number)]
    ELSE [ledger |-> InsertRow(led, id, booking_data), id |-> id,
          error |-> <<>>]

NoBatch == <<>>
Idle == [p \in Procs |-> <<>>]

Init ==
    /\ ledger = << >>
    /\ nextId = 1
    /\ now = SecondsPerDay          \* day 1, 00:00:00
    /\ batch = NoBatch
    /\ inflight = Idle
    /\ ret = [op |-> "none"]
    /\ fleet = SeedFleet
    /\ profiles = SeedProfiles
    /\ session = None
    /\ tokens = None

\* the clock moves to the next instant at which it is observed
Tick ==
    /\ \E t \in Instants :
        /\ t > now
        /\ \A t2 \in Instants : t2 > now => t <= t2
        /\ now' = t
    /\ UNCHANGED <<ledger, nextId, batch, inflight, ret,
                 fleet, profiles, session, tokens>>

\* what a call that raises leaves with its caller: the exception
RaisedResult(op, exception) == [op |-> op, raises |-> exception]

\* BookingController.create_booking, run to completion.  int(price) is
\* evaluated while booking_data is built, before the try.
CreateBooking(user_id, bus_id, seat_number, src, dst, price, store) ==
    /\ batch = NoBatch
    /\ IF PyInt(price).raises # ""
       THEN /\ ret' = RaisedResult("create_booking", PyInt(price).raises)
            /\ UNCHANGED <<ledger, nextId>>
       ELSE LET out == CreateOutcome(ledger, nextId,
                        BookingData(user_id, bus_id, seat_number, src, dst,
                                    PyInt(price).v, now), store)
            IN  /\ out.id = 0 \/ nextId <= MaxBookings
                /\ ledger' = out.ledger
                /\ nextId' = IF out.id = 0 THEN nextId ELSE nextId + 1
                /\ ret' = [op |-> "create_booking", booking |-> out.id,
                           error |-> out.error, store |-> store]
    /\ UNCHANGED <<now, batch, inflight,
                 fleet, profiles, session, tokens>>

MsgCancelFailed == "Failed to cancel booking."
MsgDeleteFailed == "Failed to delete booking."

\* the result of cancel_booking / delete_booking; store tells whether a
\* call to the store raised during the request
OwnerResult(op, booking_id, user_id, success, error, store) ==
    [op |-> op, booking_id |-> booking_id, user_id |-> user_id,
     success |-> success, error |-> error, store |-> store]

\* (True, None) of cancel_booking; was is the status of the booking as the
\* ownership lookup returned it
CancelResult(booking_id, user_id, was) ==
    [op |-> "cancel_booking", booking_id |-> booking_id,
     user_id |-> user_id, success |-> TRUE, error |-> "", store |-> "ok",
     was |-> was]

\* BookingController.cancel_booking, run to completion; read and write are
\* what the store does with the ownership lookup and with the update
CancelBooking(booking_id, user_id, read, write) ==
    /\ batch = NoBatch
    /\ IF booking_id \notin
            get_bookings_by_user(StoreRead(ledger, read), user_id)
       THEN /\ ledger' = ledger
            /\ ret' = OwnerResult("cancel_booking", booking_id, user_id,
                                  FALSE, MsgNotFound, read)
       ELSE IF write = "error"
       THEN /\ ledger' = ledger
            /\ ret' = OwnerResult("cancel_booking", booking_id, user_id,
                                  FALSE, MsgCancelFailed, write)
       ELSE /\ ledger' = UpdateCancelled(ledger, booking_id)
            /\ ret' = CancelResult(booking_id, user_id,
                                   ledger[booking_id].status)
    /\ UNCHANGED <<nextId, now, batch, inflight,
                   fleet, profiles, session, tokens>>

\* BookingController.delete_booking, run to completion
DeleteBooking(booking_id, user_id, read, write) ==
    /\ batch = NoBatch
    /\ IF booking_id \notin
            get_bookings_by_user(StoreRead(ledger, read), user_id)
       THEN /\ ledger' = ledger
            /\ ret' = OwnerResult("delete_booking", booking_id, user_id,
                                  FALSE, MsgNotFound, read)
       ELSE IF write = "error"
       THEN /\ ledger' = ledger
            /\ ret' = OwnerResult("delete_booking", booking_id, user_id,
                                  FALSE, MsgDeleteFailed, write)
       ELSE /\ ledger' = DeleteRow(ledger, booking_id)
            /\ ret' = OwnerResult("delete_booking", booking_id, user_id,
                                  TRUE, "", "ok")
    /\ UNCHANGED <<nextId, now, batch, inflight,
                   fleet, profiles, session, tokens>>

\* BookingController.get_user_bookings, called: the ids of the bookings
\* returned, and nothing else
GetUserBookings(user_id, store) ==
    /\ batch = NoBatch
    /\ ret' = [op |-> "get_user_bookings", user_id |-> user_id,
               store |-> store,
               bookings |-> get_bookings_by_user(StoreRead(ledger, store),
                                                 user_id)]
    /\ UNCHANGED <<ledger, nextId, now, batch, inflight,
                   fleet, profiles, session, tokens>>

(***************************************************************************)
(* BookingController.create_multiple_bookings: the size check, then one    *)
(* create_booking per seat label, each reading the clock when it runs.     *)
(***************************************************************************)
\* a variant whose limit is one too high
TooManySeatsOffByOne(seat_numbers) ==
    Len(seat_numbers) > MAX_SEATS_PER_BOOKING + 1

\* len(seat_numbers) > MAX_SEATS_PER_BOOKING
TooManySeats(seat_numbers) == Len(seat_numbers) > MAX_SEATS_PER_BOOKING

BatchResult(b) ==
    [op |-> "create_multiple_bookings", seat_numbers |-> b.seat_numbers,
     successful_bookings |-> b.successful_bookings, errors |-> b.errors]

\* the call enters create_multiple_bookings
BatchBegin(user_id, bus_id, seat_numbers, source, destination, price) ==
    /\ batch = NoBatch
    /\ IF TooManySeats(seat_numbers)
       THEN /\ ret' = [op |-> "create_multiple_bookings",
                       seat_numbers |-> seat_numbers,
                       successful_bookings |-> <<>>,
                       errors |-> <<MsgMaxSeats>>]
            /\ batch' = NoBatch
       ELSE /\ nextId + Len(seat_numbers) - 1 <= MaxBatchBookings
            /\ batch' = <<[user_id |-> user_id, bus_id |-> bus_id,
                           seat_numbers |-> seat_numbers, source |-> source,
                           destination |-> destination, price |-> price,
                           successful_bookings |-> <<>>, errors |-> <<>>]>>
            /\ ret' = [op |-> "pending"]
    /\ UNCHANGED <<ledger, nextId, now, inflight,
                 fleet, profiles, session, tokens>>

\* a variant that returns at the first seat that fails
BatchStepStopsAtError(store) ==
    /\ batch # NoBatch
    /\ LET b == batch[1]
           k == Len(b.successful_bookings) + Len(b.errors) + 1
           seat_number == b.seat_numbers[k]
           out == CreateOutcome(ledger, nextId,
                    BookingData(b.user_id, b.bus_id, seat_number, b.source,
                                b.destination, PyInt(b.price).v, now), store)
           after == IF out.id # 0
                    THEN [b EXCEPT !.successful_bookings = Append(@, out.id)]
                    ELSE [b EXCEPT !.errors =
                            Append(@, <<"Seat", seat_number, out.error>>)]
       IN  IF PyInt(b.price).raises # ""
           THEN /\ batch' = NoBatch
                /\ ret' = RaisedResult("create_multiple_bookings",
                                       PyInt(b.price).raises)
                /\ UNCHANGED <<ledger, nextId>>
           ELSE /\ ledger' = out.ledger
                /\ nextId' = IF out.id = 0 THEN nextId ELSE nextId + 1
                /\ IF k = Len(b.seat_numbers) \/ out.id = 0
                   THEN /\ batch' = NoBatch
                        /\ ret' = BatchResult(after)
                   ELSE /\ batch' = <<after>>
                        /\ ret' = ret
    /\ UNCHANGED <<now, inflight,
                 fleet, profiles, session, tokens>>

\* one iteration of the loop over seat_numbers; the last one returns
BatchStep(store) ==
    /\ batch # NoBatch
    /\ LET b == batch[1]
           k == Len(b.successful_bookings) + Len(b.errors) + 1
           seat_number == b.seat_numbers[k]
           out == CreateOutcome(ledger, nextId,
                    BookingData(b.user_id, b.bus_id, seat_number, b.source,
                                b.destination, PyInt(b.price).v, now), store)
           after == IF out.id # 0
                    THEN [b EXCEPT !.successful_bookings = Append(@, out.id)]
                    ELSE [b EXCEPT !.errors =
                            Append(@, <<"Seat", seat_number, out.error>>)]
       IN  IF PyInt(b.price).raises # ""
           THEN /\ batch' = NoBatch
                /\ ret' = RaisedResult("create_multiple_bookings",
                                       PyInt(b.price).raises)
                /\ UNCHANGED <<ledger, nextId>>
           ELSE /\ ledger' = out.ledger
                /\ nextId' = IF out.id = 0 THEN nextId ELSE nextId + 1
                /\ IF k = Len(b.seat_numbers)
                   THEN /\ batch' = NoBatch
                        /\ ret' = BatchResult(after)
                   ELSE /\ batch' = <<after>>
                        /\ ret' = ret
    /\ UNCHANGED <<now, inflight,
                 fleet, profiles, session, tokens>>

(***************************************************************************)
(* Two requests in flight: the existence check and the insert of            *)
(* SupabaseService.create_booking are two calls to the store, and another   *)
(* request's calls may come between them.                                   *)
(***************************************************************************)
InFlight == {p \in Procs : inflight[p] # <<>>}

\* create_booking up to and including the existence check
ConcCheck(p, user_id, bus_id, seat_number, source, destination, price) ==
    /\ inflight[p] = <<>>
    /\ nextId + Cardinality(InFlight) <= MaxBookings
    /\ LET booking_data == BookingData(user_id, bus_id, seat_number, source,
                                       destination, PyInt(price).v, now)
       IN  IF PyInt(price).raises # ""
           THEN /\ ret' = RaisedResult("create_booking", PyInt(price).raises)
                /\ inflight' = inflight
           ELSE IF ExistingBookings(ledger, booking_data) # {}
           THEN /\ ret' = [op |-> "create_booking", booking |-> 0,
                           error |-> MsgAlreadyBooked(seat_number),
                           store |-> "ok"]
                /\ inflight' = inflight
           ELSE /\ inflight' = [inflight EXCEPT ![p] = <<booking_data>>]
                /\ ret' = ret
    /\ UNCHANGED <<ledger, nextId, now, batch,
                 fleet, profiles, session, tokens>>

\* the insert, and the return of create_booking
ConcInsert(p) ==
    /\ inflight[p] # <<>>
    /\ ledger' = InsertRow(ledger, nextId, inflight[p][1])
    /\ nextId' = nextId + 1
    /\ inflight' = [inflight EXCEPT ![p] = <<>>]
    /\ ret' = [op |-> "create_booking", booking |-> nextId, error |-> <<>>,
               store |-> "ok"]
    /\ UNCHANGED <<now, batch,
                 fleet, profiles, session, tokens>>

(***************************************************************************)
(* Two cancel_booking / delete_booking requests in flight: the ownership    *)
(* lookup and the update or delete are two calls to the store.              *)
(***************************************************************************)
\* cancel_booking / delete_booking up to and including the lookup
ConcOwnerLookup(p, op, booking_id, user_id) ==
    /\ batch = NoBatch
    /\ inflight[p] = <<>>
    /\ IF booking_id \notin get_bookings_by_user(ledger, user_id)
       THEN /\ ret' = OwnerResult(op, booking_id, user_id, FALSE,
                                  MsgNotFound, "ok")
            /\ inflight' = inflight
       ELSE /\ inflight' = [inflight EXCEPT ![p] =
                    <<[op |-> op, booking_id |-> booking_id,
                       user_id |-> user_id,
                       was |-> ledger[booking_id].status]>>]
            /\ ret' = ret
    /\ UNCHANGED <<ledger, nextId, now, batch,
                   fleet, profiles, session, tokens>>

\* the update or the delete, which the store runs on the rows that have
\* the id now, and the return of True
ConcOwnerWrite(p) ==
    /\ inflight[p] # <<>>
    /\ LET r == inflight[p][1]
       IN  IF r.op = "cancel_booking"
           THEN /\ ledger' = UpdateCancelled(ledger, r.booking_id)
                /\ ret' = CancelResult(r.booking_id, r.user_id, r.was)
           ELSE /\ ledger' = DeleteRow(ledger, r.booking_id)
                /\ ret' = OwnerResult("delete_booking", r.booking_id,
                                      r.user_id, TRUE, "", "ok")
    /\ inflight' = [inflight EXCEPT ![p] = <<>>]
    /\ UNCHANGED <<nextId, now, batch,
                   fleet, profiles, session, tokens>>

(***************************************************************************)
(* BookingController.get_seat_layout as a request.                         *)
(***************************************************************************)
GetSeatLayout(bus_id, date_str, store) ==
    /\ batch = NoBatch
    /\ ret' = [op |-> "get_seat_layout", bus_id |-> bus_id,
               date_str |-> date_str, store |-> store,
               layout |-> get_seat_layout(StoreRead(ledger, store), bus_id,
                                          date_str)]
    /\ UNCHANGED <<ledger, nextId, now, batch, inflight,
                 fleet, profiles, session, tokens>>

(***************************************************************************)
(* BusController: _validate_bus_input, create_bus, update_bus,             *)
(* assign_driver over SupabaseService.create_bus / update_bus.             *)
(***************************************************************************)
MsgBusName == "Bus name must be at least 2 characters."
MsgRoute == "Route must have at least 2 stops."
MsgPricePositive == "Price must be greater than 0."
MsgPriceNumber == "Price must be a valid number."
MsgCreateBusFailed == "Failed to create bus"
MsgUpdateBusFailed == "Failed to update bus"

\* the least length a name and a route must have
MinNameLen == 2
MinRouteLen == 2

\* a variant that accepts a price of 0 and a name of one character
validate_bus_input_lenient(name, route, price) ==
    IF Len(Strip(name)) < MinNameLen - 1
    THEN MsgBusName
    ELSE IF Len(route) < MinRouteLen
    THEN MsgRoute
    ELSE IF PyInt(price).raises # ""
    THEN MsgPriceNumber
    ELSE IF PyInt(price).v < 0
    THEN MsgPricePositive
    ELSE ""

\* _validate_bus_input: the error message, or "" for None
validate_bus_input(name, route, price) ==
    IF name = <<>> \/ Len(Strip(name)) < MinNameLen
    THEN MsgBusName
    ELSE IF route = <<>> \/ Len(route) < MinRouteLen
    THEN MsgRoute
    ELSE IF PyInt(price).raises \in {"ValueError", "TypeError"}
    THEN MsgPriceNumber
    ELSE IF PyInt(price).v <= 0
    THEN MsgPricePositive
    ELSE ""

\* bus ids in the order the store issues them (order of created_at)
BusOrder == [i \in 1..MaxBuses |-> "b" \o ToString(i)]

\* the id the store gives the next bus row; None when the model's ids are
\* used up
FreshBusId(fl) ==
    IF \A i \in 1..MaxBuses : BusOrder[i] \in DOMAIN fl THEN None
    ELSE BusOrder[CHOOSE i \in 1..MaxBuses :
                    /\ BusOrder[i] \notin DOMAIN fl
                    /\ \A j \in 1..(i - 1) : BusOrder[j] \in DOMAIN fl]

\* driver_id if driver_id else None
DriverOrNone(driver_id) == IF driver_id = "" THEN None ELSE driver_id

\* create_bus: the fleet afterwards, the id of the bus returned (None when
\* none), the error message and the number of calls made to the store
CreateBusOutcome(fl, name, route, price, driver_id, status, store) ==
    LET validation_error == validate_bus_input(name, route, price)
        id == FreshBusId(fl)
    IN  IF validation_error # ""
        THEN [fleet |-> fl, bus |-> None, error |-> validation_error,
              store_calls |-> 0]
        ELSE IF store = "error"
        THEN [fleet |-> fl, bus |-> None, error |-> MsgCreateBusFailed,
              store_calls |-> 1]
        ELSE [fleet |-> [b \in DOMAIN fl \cup {id} |->
                            IF b = id
                            THEN BusRow(name, route, DriverOrNone(driver_id),
                                        PyInt(price).v, status)
                            ELSE fl[b]],
              bus |-> id, error |-> "", store_calls |-> 1]

\* SupabaseService.update_bus: the rows with that id take the new fields;
\* when no row comes back the bus is read again, which raises if there is
\* no such bus.  "hidden": the store's row-level security leaves the row
\* as it is and returns nothing.
StoreUpdateBus(fl, bus_id, fields, store) ==
    IF store = "error" \/ bus_id \notin DOMAIN fl
    THEN [fleet |-> fl, bus |-> None, error |-> MsgUpdateBusFailed]
    ELSE IF store = "hidden"
    THEN [fleet |-> fl, bus |-> bus_id, error |-> ""]
    ELSE [fleet |-> [fl EXCEPT ![bus_id] =
                        [f \in DOMAIN fl[bus_id] |->
                            IF f \in DOMAIN fields THEN fields[f]
                            ELSE fl[bus_id][f]]],
          bus |-> bus_id, error |-> ""]

\* update_bus
UpdateBusOutcome(fl, bus_id, name, route, price, driver_id, status, store) ==
    LET validation_error == validate_bus_input(name, route, price)
    IN  IF validation_error # ""
        THEN [fleet |-> fl, bus |-> None, error |-> validation_error,
              store_calls |-> 0]
        ELSE LET out == StoreUpdateBus(fl, bus_id,
                            [name |-> name, route |-> route,
                             driver_id |-> DriverOrNone(driver_id),
                             price |-> PyInt(price).v, status |-> status],
                            store)
             IN  [fleet |-> out.fleet, bus |-> out.bus, error |-> out.error,
                  store_calls |-> 1]

\* the model keeps at most MaxBuses buses
CreateBus(name, route, price, driver_id, status, store) ==
    /\ batch = NoBatch
    /\ LET out == CreateBusOutcome(fleet, name, route, price, driver_id,
                                   status, store)
       IN  /\ out.bus = None \/ FreshBusId(fleet) # None
           /\ fleet' = out.fleet
           /\ ret' = [op |-> "create_bus", name |-> name, route |-> route,
                      price |-> price, bus |-> out.bus, error |-> out.error,
                      store_calls |-> out.store_calls]
    /\ UNCHANGED <<ledger, nextId, now, batch, inflight,
                   profiles, session, tokens>>

UpdateBus(bus_id, name, route, price, driver_id, status, store) ==
    /\ batch = NoBatch
    /\ LET out == UpdateBusOutcome(fleet, bus_id, name, route, price,
                                   driver_id, status, store)
       IN  /\ fleet' = out.fleet
           /\ ret' = [op |-> "update_bus", name |-> name, route |-> route,
                      price |-> price, bus |-> out.bus, error |-> out.error,
                      store_calls |-> out.store_calls]
    /\ UNCHANGED <<ledger, nextId, now, batch, inflight,
                   profiles, session, tokens>>

\* BusController.assign_driver
AssignDriver(bus_id, driver_id, store) ==
    /\ batch = NoBatch
    /\ LET out == StoreUpdateBus(fleet, bus_id, [driver_id |-> driver_id],
                                 store)
       IN  /\ fleet' = out.fleet
           /\ ret' = [op |-> "assign_driver", bus_id |-> bus_id,
                      driver_id |-> driver_id, success |-> out.bus # None,
                      error |-> out.error]
    /\ UNCHANGED <<ledger, nextId, now, batch, inflight,
                   profiles, session, tokens>>

(***************************************************************************)
(* BusController.get_all_buses / get_active_buses / search_buses: lists of  *)
(* buses, given by their ids, in the order the store returns them.          *)
(***************************************************************************)
get_all_buses(fl) ==
    LET InFleet(b) == b \in DOMAIN fl IN SelectSeq(BusOrder, InFleet)

\* Bus.isActive
isActive(bus) == bus.status = BUS_STATUS_ACTIVE

\* a variant without the isActive filter
get_active_buses_unfiltered(fl) == get_all_buses(fl)

get_active_buses(fl) ==
    LET Active(b) == isActive(fl[b]) IN SelectSeq(get_all_buses(fl), Active)

search_buses(fl, source, destination) ==
    LET Matching(b) == is_valid_trip(fl[b].route, source, destination)
    IN  SelectSeq(get_active_buses(fl), Matching)

SearchBuses(source, destination, store) ==
    /\ batch = NoBatch
    /\ ret' = [op |-> "search_buses", source |-> source,
               destination |-> destination, store |-> store,
               buses |-> search_buses(StoreRead(fleet, store), source,
                                      destination)]
    /\ UNCHANGED <<ledger, nextId, now, batch, inflight,
                   fleet, profiles, session, tokens>>

(***************************************************************************)
(* Accounts and sessions: AuthController and UserController over            *)
(* SupabaseService.login / register, and the auth views.  An account is     *)
(* known by its email; profiles gives its role.  session is the user        *)
(* Flask-Login holds for the browser (current_user), tokens the account     *)
(* whose Supabase tokens the Flask session holds.                           *)
(***************************************************************************)
MsgInvalidCredentials == "Invalid email or password."
MsgAccessDenied(portal_type) ==
    <<"Access denied. This portal is for", portal_type, "s only.">>
MsgName == "Name must be at least 2 characters long."
MsgEmail == "Please enter a valid email address."
MsgPassword == "Password must be at least 6 characters long."
MsgAlreadyRegistered == "This email is already registered."

MinPasswordLen == 6

\* the password every account of the model has, and a shorter one
Password == <<"s", "e", "c", "r", "e", "t">>
ShortPassword == <<"a", "b", "c">>

\* '@' in email: the emails the model uses, but for one, have an '@'
HasAt(email) == email # "nobody"

\* portal_type.lower(), on the portal types the model uses
Lower(portal_type) == IF portal_type = "Admin" THEN "admin" ELSE portal_type

\* AuthController._get_expected_role: role_mapping.get(...), None for a
\* portal type that is no key
get_expected_role(portal_type) ==
    CASE Lower(portal_type) = "user" -> USER_ROLE
      [] Lower(portal_type) = "driver" -> DRIVER_ROLE
      [] Lower(portal_type) = "admin" -> ADMIN_ROLE
      [] OTHER -> None

\* User.isUser / isDriver / isAdmin, of a role
isUser(role) == role = USER_ROLE
isDriver(role) == role = DRIVER_ROLE

\* a variant that takes everyone but a passenger for an administrator
isAdmin_not_user(role) == role # USER_ROLE

isAdmin(role) == role = ADMIN_ROLE

\* AuthController.login over SupabaseService.login: the user returned (None
\* when none), the error message and the account whose tokens
\* _save_session has put in the Flask session
LoginOutcome(profs, tok, email, password, portal_type) ==
    IF email \notin DOMAIN profs \/ password # Password
    THEN [user |-> None, error |-> <<MsgInvalidCredentials>>, tokens |-> tok]
    ELSE IF /\ get_expected_role(portal_type) # None
            /\ profs[email] # get_expected_role(portal_type)
    THEN [user |-> None, error |-> MsgAccessDenied(portal_type),
          tokens |-> email]
    ELSE [user |-> email, error |-> <<>>, tokens |-> email]

\* the login view, POST
Login(portal_type, email, password) ==
    /\ batch = NoBatch
    /\ IF session # None
       THEN /\ ret' = [op |-> "login", portal_type |-> portal_type,
                       user |-> None, error |-> <<"redirect">>]
            /\ UNCHANGED <<session, tokens>>
       ELSE IF portal_type \notin {"user", "driver", "admin"}
       THEN /\ ret' = [op |-> "login", portal_type |-> portal_type,
                       user |-> None, error |-> <<"Invalid portal type.">>]
            /\ UNCHANGED <<session, tokens>>
       ELSE LET out == LoginOutcome(profiles, tokens, email, password,
                                    portal_type)
            IN  /\ ret' = [op |-> "login", portal_type |-> portal_type,
                           user |-> out.user, error |-> out.error]
                /\ session' = out.user
                /\ tokens' = out.tokens
    /\ UNCHANGED <<ledger, nextId, now, batch, inflight, fleet, profiles>>

\* the logout view
Logout ==
    /\ batch = NoBatch
    /\ session' = None
    /\ tokens' = None
    /\ ret' = [op |-> "logout"]
    /\ UNCHANGED <<ledger, nextId, now, batch, inflight, fleet, profiles>>

\* _validate_registration_input / _validate_driver_input (the same tests)
validate_registration_input(name, email, password) ==
    IF name = <<>> \/ Len(Strip(name)) < MinNameLen
    THEN MsgName
    ELSE IF email = "" \/ ~HasAt(email)
    THEN MsgEmail
    ELSE IF password = <<>> \/ Len(password) < MinPasswordLen
    THEN MsgPassword
    ELSE ""

\* SupabaseService.register after the validation of its caller: sign_up
\* with the role in the user's metadata, from which the store makes the
\* profile; has_session: sign_up returns a session, which is saved
RegisterOutcome(profs, tok, name, email, password, role, has_session) ==
    IF validate_registration_input(name, email, password) # ""
    THEN [profiles |-> profs, tokens |-> tok, user |-> None,
          error |-> validate_registration_input(name, email, password)]
    ELSE IF email \in DOMAIN profs
    THEN [profiles |-> profs, tokens |-> tok, user |-> None,
          error |-> MsgAlreadyRegistered]
    ELSE [profiles |-> [a \in DOMAIN profs \cup {email} |->
                            IF a = email THEN role ELSE profs[a]],
          tokens |-> IF has_session THEN email ELSE tok,
          user |-> email, error |-> ""]

\* a variant that registers with the role the form sends
register_with_role(name, email, password, role, has_session) ==
    RegisterOutcome(profiles, tokens, name, email, password, role,
                    has_session)

\* AuthController.register: SupabaseService.register with its default role
register(name, email, password, role, has_session) ==
    RegisterOutcome(profiles, tokens, name, email, password, USER_ROLE,
                    has_session)

\* UserController.create_driver: SupabaseService.create_driver
create_driver(name, email, password, has_session) ==
    RegisterOutcome(profiles, tokens, name, email, password, DRIVER_ROLE,
                    has_session)

AccountResult(op, out) ==
    [op |-> op, user |-> out.user, error |-> out.error,
     role |-> IF out.user = None THEN None ELSE out.profiles[out.user]]

\* the register view, POST; role is what a request may add to the form
Register(name, email, password, role, has_session) ==
    /\ batch = NoBatch
    /\ IF session # None
       THEN /\ ret' = [op |-> "register", user |-> None,
                       error |-> "redirect", role |-> None]
            /\ UNCHANGED <<profiles, tokens>>
       ELSE LET out == register(Strip(name), email, password, role,
                                has_session)
            IN  /\ ret' = AccountResult("register", out)
                /\ profiles' = out.profiles
                /\ tokens' = out.tokens
    /\ UNCHANGED <<ledger, nextId, now, batch, inflight, fleet, session>>

(***************************************************************************)
(* The portals' endpoints: login_required, the role check of the portal,    *)
(* then the controller.                                                     *)
(***************************************************************************)
\* _check_user_role / _check_driver_role / _check_admin_role pass
HasPortalRole(portal, role) ==
    CASE portal = "user" -> isUser(role)
      [] portal = "driver" -> isDriver(role)
      [] portal = "admin" -> isAdmin(role)

HttpOk == 200
HttpRedirect == 302
HttpBadRequest == 400
HttpForbidden == 403

Answer(portal, name, status) ==
    [op |-> "endpoint", portal |-> portal, name |-> name, user |-> session,
     status |-> status]

\* the answer of an endpoint to a user the role check turns away: the
\* dashboards flash a message and redirect, the others answer 403
Denied(portal, name) ==
    /\ batch = NoBatch
    /\ ret' = Answer(portal, name,
                     IF name = "dashboard" THEN HttpRedirect
                     ELSE HttpForbidden)
    /\ UNCHANGED <<ledger, nextId, now, batch, inflight,
                   fleet, profiles, session, tokens>>

\* the endpoints that only read: dashboard, search, seats, bookings,
\* booking; dashboard, buses, bus; dashboard, buses, drivers,
\* unassigned-buses
PortalRead(portal, name) ==
    /\ session # None
    /\ IF ~HasPortalRole(portal, profiles[session])
       THEN Denied(portal, name)
       ELSE /\ batch = NoBatch
            /\ ret' = Answer(portal, name, HttpOk)
            /\ UNCHANGED <<ledger, nextId, now, batch, inflight,
                           fleet, profiles, session, tokens>>

\* POST /user/book
UserBook(bus_id, seat_numbers, source, destination, price) ==
    /\ session # None
    /\ IF ~HasPortalRole("user", profiles[session])
       THEN Denied("user", "book")
       ELSE IF bus_id = "" \/ seat_numbers = <<>> \/ source = ""
                \/ destination = "" \/ ~Truthy(price)
       THEN /\ batch = NoBatch
            /\ ret' = Answer("user", "book", HttpBadRequest)
            /\ UNCHANGED <<ledger, nextId, now, batch, inflight,
                           fleet, profiles, session, tokens>>
       ELSE /\ nextId <= MaxBookings
            /\ BatchBegin(session, bus_id, seat_numbers, source,
                          destination, price)

\* a variant of the endpoint that calls the soft cancel_booking
UserCancelSoft(booking_id) ==
    /\ session # None
    /\ IF ~HasPortalRole("user", profiles[session])
       THEN Denied("user", "cancel")
       ELSE CancelBooking(booking_id, session, "ok", "ok")

\* POST /user/cancel/<booking_id>
UserCancel(booking_id) ==
    /\ session # None
    /\ IF ~HasPortalRole("user", profiles[session])
       THEN Denied("user", "cancel")
       ELSE DeleteBooking(booking_id, session, "ok", "ok")

\* POST /admin/bus/create
AdminCreateBus(name, route, price, driver_id, status) ==
    /\ session # None
    /\ IF ~HasPortalRole("admin", profiles[session])
       THEN Denied("admin", "bus/create")
       ELSE CreateBus(Strip(name), route, price, driver_id, status, "ok")

\* POST /admin/bus/<bus_id>/update
AdminUpdateBus(bus_id, name, route, price, driver_id, status) ==
    /\ session # None
    /\ IF ~HasPortalRole("admin", profiles[session])
       THEN Denied("admin", "bus/update")
       ELSE UpdateBus(bus_id, Strip(name), route, price, driver_id, status,
                      "ok")

\* POST /admin/bus/<bus_id>/assign
AdminAssignDriver(bus_id, driver_id) ==
    /\ session # None
    /\ IF ~HasPortalRole("admin", profiles[session])
       THEN Denied("admin", "bus/assign")
       ELSE IF driver_id = None
       THEN /\ batch = NoBatch
            /\ ret' = Answer("admin", "bus/assign", HttpBadRequest)
            /\ UNCHANGED <<ledger, nextId, now, batch, inflight,
                           fleet, profiles, session, tokens>>
       ELSE AssignDriver(bus_id, driver_id, "ok")

\* POST /admin/driver/create
AdminCreateDriver(name, email, password, has_session) ==
    /\ session # None
    /\ IF ~HasPortalRole("admin", profiles[session])
       THEN Denied("admin", "driver/create")
       ELSE LET out == create_driver(Strip(name), email, password,
                                     has_session)
            IN  /\ batch = NoBatch
                /\ ret' = AccountResult("create_driver", out)
                /\ profiles' = out.profiles
                /\ tokens' = out.tokens
                /\ UNCHANGED <<ledger, nextId, now, batch, inflight,
                               fleet, session>>

(***************************************************************************)
(* Specifications.                                                         *)
(***************************************************************************)
\* requests one at a time: single bookings, cancellations, deletions
Next ==
    \/ Tick
    \/ \E u \in Users, s \in Seats :
        CreateBooking(u, "b1", s, "Uttara", "Farmgate",
                      IntPrice(DEFAULT_TICKET_PRICE), "ok")
    \/ \E i \in Ids, u \in Users : CancelBooking(i, u, "ok", "ok")
    \/ \E i \in Ids, u \in Users : DeleteBooking(i, u, "ok", "ok")

Spec == Init /\ [][Next]_vars

\* requests one at a time: seat lists
NextBatch ==
    \/ Tick
    \/ \E l \in SeatLists :
        BatchBegin("u1", "b1", l, "Uttara", "Farmgate",
                   IntPrice(DEFAULT_TICKET_PRICE))
    \/ BatchStep("ok")

SpecBatch == Init /\ [][NextBatch]_vars

\* two create_booking requests whose store calls interleave
NextConc ==
    \/ Tick
    \/ \E p \in Procs, u \in Users, b \in Buses, s \in Seats :
        ConcCheck(p, u, b, s, "Uttara", "Farmgate",
                  IntPrice(DEFAULT_TICKET_PRICE))
    \/ \E p \in Procs : ConcInsert(p)

SpecConc == Init /\ [][NextConc]_vars

\* requests one at a time, over the trips a request may name
Trips == {<<"Uttara", "Farmgate">>, <<"Farmgate", "Uttara">>,
          <<"Uttara", "Motijheel">>, <<"Motijheel", "Farmgate">>}

NextTrip ==
    \/ Tick
    \/ \E b \in Buses, t \in Trips :
        CreateBooking("u1", b, "A1", t[1], t[2],
                      IntPrice(DEFAULT_TICKET_PRICE), "ok")

SpecTrip == Init /\ [][NextTrip]_vars

\* requests one at a time, with the seat layout read between them, for a
\* date given as a day ('2024-12-15') or left out (the clock is read)
LayoutDates == {d * SecondsPerDay : d \in Days}

NextLayout ==
    \/ Tick
    \/ \E b \in Buses, s \in Seats :
        CreateBooking("u1", b, s, "Uttara", "Farmgate",
                      IntPrice(DEFAULT_TICKET_PRICE), "ok")
    \/ \E i \in Ids : CancelBooking(i, "u1", "ok", "ok")
    \/ \E b \in Buses, d \in LayoutDates \cup {now} :
        GetSeatLayout(b, d, "ok")

SpecLayout == Init /\ [][NextLayout]_vars

\* the seat layout read over ledgers that also hold a label outside the
\* layout (create_booking takes any label)
LayoutLabels == {"A1", "Z9"}

NextLabels ==
    \/ Tick
    \/ \E b \in Buses, s \in LayoutLabels :
        CreateBooking("u1", b, s, "Uttara", "Farmgate",
                      IntPrice(DEFAULT_TICKET_PRICE), "ok")
    \/ \E b \in Buses, d \in LayoutDates \cup {now} :
        GetSeatLayout(b, d, "ok")

SpecLabels == Init /\ [][NextLabels]_vars

\* Bus.is_valid_trip on its own: a bus with any route of up to MaxRouteLen
\* stops, where a stop may come more than once, asked about any pair of
\* stops
TripStops == {"Uttara", "Banani", "Farmgate"}
RouteStops == {"Uttara", "Banani"}
TripRoutes == UNION {[1..n -> RouteStops] : n \in 0..MaxRouteLen}

InitTripCheck ==
    /\ ledger = << >>
    /\ nextId = 1
    /\ now = SecondsPerDay
    /\ batch = NoBatch
    /\ inflight = Idle
    /\ fleet = SeedFleet
    /\ profiles = SeedProfiles
    /\ session = None
    /\ tokens = None
    /\ ret \in {[op |-> "bus", route |-> r, source |-> a, destination |-> b] :
                    r \in TripRoutes, a \in TripStops, b \in TripStops}

IsValidTrip ==
    /\ ret.op = "bus"
    /\ ret' = [op |-> "is_valid_trip", route |-> ret.route,
               source |-> ret.source, destination |-> ret.destination,
               result |-> is_valid_trip(ret.route, ret.source,
                                        ret.destination)]
    /\ UNCHANGED <<ledger, nextId, now, batch, inflight,
                   fleet, profiles, session, tokens>>

NextTripCheck == IsValidTrip

SpecTripCheck == InitTripCheck /\ [][NextTripCheck]_vars

\* the admin's create and update requests, over names, routes and prices
\* of every kind the validation tells apart
BusNames == {<<>>, <<" ", "a", " ">>, <<"a", "b">>}
BusRoutes == {<<"Uttara">>, <<"Uttara", "Banani">>}
NumeralTexts == {<<" ", "7">>}
OtherTexts == {<<"a", "b", "c">>, <<"-", "3">>}
BusPrices ==
    {IntPrice(0), IntPrice(5), FloatPrice(1, 2), NoPrice}
    \cup {TextPrice(t) : t \in NumeralTexts \cup OtherTexts}

NextFleet ==
    \/ \E n \in BusNames, r \in BusRoutes, p \in BusPrices :
        CreateBus(n, r, p, None, BUS_STATUS_ACTIVE, "ok")
    \/ \E n \in BusNames, r \in BusRoutes, p \in BusPrices :
        UpdateBus("b1", n, r, p, None, BUS_STATUS_ACTIVE, "ok")

SpecFleet == Init /\ [][NextFleet]_vars

\* the admin's create and update requests, over routes that name a stop
\* once or more than once
RepeatingRoutes == {<<"Uttara">>, <<"Uttara", "Uttara">>,
                    <<"Uttara", "Banani">>, <<"Uttara", "Banani", "Uttara">>}

NextRoutes ==
    \/ \E r \in RepeatingRoutes :
        CreateBus(<<"a", "b">>, r, IntPrice(DEFAULT_TICKET_PRICE), None,
                  BUS_STATUS_ACTIVE, "ok")
    \/ \E b \in Buses, r \in RepeatingRoutes :
        UpdateBus(b, <<"a", "b">>, r, IntPrice(DEFAULT_TICKET_PRICE), None,
                  BUS_STATUS_ACTIVE, "ok")

SpecRoutes == Init /\ [][NextRoutes]_vars

\* the admin's requests that set a driver: any user id, also one that is
\* no driver's and one that is nobody's
DriverRefs == {None, "d1", "u1", "x9"}

NextDrivers ==
    \/ \E d \in DriverRefs :
        CreateBus(<<"a", "b">>, Route("b1"), IntPrice(DEFAULT_TICKET_PRICE),
                  d, BUS_STATUS_ACTIVE, "ok")
    \/ \E b \in Buses, d \in DriverRefs :
        UpdateBus(b, <<"a", "b">>, Route(b), IntPrice(DEFAULT_TICKET_PRICE),
                  d, BUS_STATUS_ACTIVE, "ok")
    \/ \E b \in Buses \cup {"b9"}, d \in DriverRefs \ {None} :
        AssignDriver(b, d, "ok")

SpecDrivers == Init /\ [][NextDrivers]_vars

\* searches between changes of the buses' status and direction
BusStatuses == {BUS_STATUS_ACTIVE, BUS_STATUS_MAINTENANCE,
                BUS_STATUS_DECOMMISSIONED}
SearchStops == {"Uttara", "Farmgate", "Motijheel"}
SearchRoutes == {<<"Uttara", "Banani", "Farmgate">>,
                 <<"Farmgate", "Banani", "Uttara">>}

NextSearch ==
    \/ \E b \in Buses, r \in SearchRoutes, st \in BusStatuses :
        UpdateBus(b, <<"a", "b">>, r, IntPrice(DEFAULT_TICKET_PRICE), None,
                  st, "ok")
    \/ \E a \in SearchStops, b \in SearchStops :
        SearchBuses(a, b, "ok")

SpecSearch == Init /\ [][NextSearch]_vars

\* bookings between changes of a bus's status, also for a bus id that no
\* bus has
NextBookable ==
    \/ Tick
    \/ \E st \in BusStatuses :
        UpdateBus("b1", <<"a", "b">>, Route("b1"),
                  IntPrice(DEFAULT_TICKET_PRICE), None, st, "ok")
    \/ \E b \in {"b1", "b9"} :
        CreateBooking("u1", b, "A1", "Uttara", "Farmgate",
                      IntPrice(DEFAULT_TICKET_PRICE), "ok")
    \/ BatchBegin("u1", "b1", <<"A1", "K5">>, "Uttara", "Farmgate",
                  IntPrice(DEFAULT_TICKET_PRICE))
    \/ BatchStep("ok")

SpecBookable == Init /\ [][NextBookable]_vars

\* requests one at a time, each with a store that answers or raises
NextStore ==
    \/ Tick
    \/ \E s \in Seats, st \in StoreOutcomes :
        CreateBooking("u1", "b1", s, "Uttara", "Farmgate",
                      IntPrice(DEFAULT_TICKET_PRICE), st)
    \/ \E i \in Ids, r \in StoreOutcomes, w \in StoreOutcomes :
        CancelBooking(i, "u1", r, w)
    \/ \E i \in Ids, r \in StoreOutcomes, w \in StoreOutcomes :
        DeleteBooking(i, "u1", r, w)
    \/ \E st \in StoreOutcomes : GetSeatLayout("b1", now, st)
    \/ \E st \in StoreOutcomes : GetUserBookings("u1", st)
    \/ \E st \in StoreOutcomes : SearchBuses("Uttara", "Farmgate", st)

SpecStore == Init /\ [][NextStore]_vars

\* a browser that logs in at every portal, right and wrong, and calls the
\* endpoints of the three portals as whoever it is logged in as
PortalTypes == {"user", "driver", "admin", "staff"}
Portals == {"user", "driver", "admin"}
ReadEndpoints == {"dashboard", "buses"}

NextPortal ==
    \/ \E p \in PortalTypes, e \in {"u1", "d1", "a1"} : Login(p, e, Password)
    \/ Login("user", "u1", ShortPassword)
    \/ Logout
    \/ \E p \in Portals, n \in ReadEndpoints : PortalRead(p, n)
    \/ UserBook("b1", <<"A1">>, "Uttara", "Farmgate",
                IntPrice(DEFAULT_TICKET_PRICE))
    \/ BatchStep("ok")
    \/ \E i \in Ids : UserCancel(i)
    \/ AdminCreateBus(<<"a", "b">>, Route("b1"),
                      IntPrice(DEFAULT_TICKET_PRICE), None,
                      BUS_STATUS_ACTIVE)
    \/ AdminUpdateBus("b1", <<"B", "u", "s">>, Route("b1"),
                      IntPrice(DEFAULT_TICKET_PRICE), None,
                      BUS_STATUS_MAINTENANCE)
    \/ \E d \in {None, "d1"} : AdminAssignDriver("b1", d)
    \/ AdminCreateDriver(<<"a", "b">>, "n1", Password, FALSE)

SpecPortal == Init /\ [][NextPortal]_vars

\* registrations and driver creations, with forms that pass the
\* validation and forms that do not, by visitors and by logged-in users
NewEmails == {"n1", "n2"}
RegistrationForms ==
    {<<<<"a", "b">>, e, Password>> : e \in NewEmails \cup {"u1", "nobody"}}
    \cup {<<<<" ", "a">>, "n1", Password>>,
          <<<<"a", "b">>, "n1", ShortPassword>>}

NextAccounts ==
    \/ \E p \in Portals, e \in {"u1", "a1", "n1"} : Login(p, e, Password)
    \/ Logout
    \/ \E f \in RegistrationForms, r \in {USER_ROLE, ADMIN_ROLE},
          hs \in BOOLEAN :
        Register(f[1], f[2], f[3], r, hs)
    \/ \E f \in RegistrationForms, hs \in BOOLEAN :
        AdminCreateDriver(f[1], f[2], f[3], hs)

SpecAccounts == Init /\ [][NextAccounts]_vars

\* bookings whose price is whatever the request's JSON held, with a store
\* that answers or raises
RequestPrices ==
    {IntPrice(DEFAULT_TICKET_PRICE), FloatPrice(5, 2), NoPrice,
     TextPrice(<<" ", "7">>), TextPrice(<<"a", "b", "c">>)}

NextErrors ==
    \/ Tick
    \/ \E s \in Seats, p \in RequestPrices, st \in StoreOutcomes :
        CreateBooking("u1", "b1", s, "Uttara", "Farmgate", p, st)
    \/ \E p \in RequestPrices :
        /\ nextId < MaxBookings
        /\ BatchBegin("u1", "b1", <<"A1", "K5">>, "Uttara", "Farmgate", p)
    \/ \E st \in StoreOutcomes : BatchStep(st)

SpecErrors == Init /\ [][NextErrors]_vars

\* requests one at a time: single bookings, seat lists, cancellations
\* and deletions of one passenger
NextTerminal ==
    \/ Tick
    \/ \E s \in Seats :
        CreateBooking("u1", "b1", s, "Uttara", "Farmgate",
                      IntPrice(DEFAULT_TICKET_PRICE), "ok")
    \/ \E l \in {<<"A1">>, <<"A1", "K5">>} :
        /\ nextId + Len(l) - 1 <= MaxBookings
        /\ BatchBegin("u1", "b1", l, "Uttara", "Farmgate",
                      IntPrice(DEFAULT_TICKET_PRICE))
    \/ BatchStep("ok")
    \/ \E i \in Ids : CancelBooking(i, "u1", "ok", "ok")
    \/ \E i \in Ids : DeleteBooking(i, "u1", "ok", "ok")

SpecTerminal == Init /\ [][NextTerminal]_vars

\* a passenger booking through POST /user/book with the price the
\* request's JSON holds: the bus's, a lower one, a negative one
FarePrices == {IntPrice(DEFAULT_TICKET_PRICE), IntPrice(1), IntPrice(0 - 5)}

NextFare ==
    \/ Tick
    \/ Login("user", "u1", Password)
    \/ \E s \in Seats, p \in FarePrices :
        UserBook("b1", <<s>>, "Uttara", "Farmgate", p)
    \/ BatchStep("ok")
    \/ \E i \in Ids : UserCancel(i)

SpecFare == Init /\ [][NextFare]_vars

\* one passenger's bookings, and two of the passenger's cancel and delete
\* requests whose store calls interleave
OwnerOps == {"cancel_booking", "delete_booking"}

NextRace ==
    \/ CreateBooking("u1", "b1", "A1", "Uttara", "Farmgate",
                     IntPrice(DEFAULT_TICKET_PRICE), "ok")
    \/ \E p \in Procs, op \in OwnerOps, i \in Ids :
        ConcOwnerLookup(p, op, i, "u1")
    \/ \E p \in Procs : ConcOwnerWrite(p)

SpecRace == Init /\ [][NextRace]_vars

\* the admin's updates and driver assignments over a store that applies
\* them, raises, or applies nothing and returns no row
UpdateOutcomes == {"ok", "error", "hidden"}

NextUpdates ==
    \/ \E n \in {<<"a", "b">>, <<"c", "d">>},
          p \in {IntPrice(DEFAULT_TICKET_PRICE), IntPrice(1)},
          st \in {BUS_STATUS_ACTIVE, BUS_STATUS_MAINTENANCE},
          store \in UpdateOutcomes :
        UpdateBus("b1", n, Route("b1"), p, None, st, store)
    \/ \E b \in {"b1", "b9"}, d \in {"d1", "d2"}, store \in UpdateOutcomes :
        AssignDriver(b, d, store)

SpecUpdates == Init /\ [][NextUpdates]_vars

(***************************************************************************)
(* Properties.                                                             *)
(***************************************************************************)
\* the CONFIRMED bookings of a bus and seat whose date is on a calendar day
ConfirmedOnDay(led, bus_id, seat_number, day) ==
    {i \in DOMAIN led :
        /\ led[i].bus_id = bus_id
        /\ led[i].seat_number = seat_number
        /\ led[i].status = BOOKING_STATUS_CONFIRMED
        /\ DayOf(led[i].date) = day}

\* C1: in every reachable state, also when the existence checks and the
\* inserts of several create_booking requests interleave, no two CONFIRMED
\* bookings share bus, calendar day and seat label.
C1_NoDoubleBooking ==
    \A i \in DOMAIN ledger : \A j \in DOMAIN ledger :
        ( /\ i # j
          /\ ledger[i].status = BOOKING_STATUS_CONFIRMED
          /\ ledger[j].status = BOOKING_STATUS_CONFIRMED
          /\ ledger[i].bus_id = ledger[j].bus_id
          /\ DayOf(ledger[i].date) = DayOf(ledger[j].date) )
        => ledger[i].seat_number # ledger[j].seat_number

\* C2: with requests run one at a time, after any sequence of them and at
\* any time of day, each bus, calendar day and seat label has at most one
\* CONFIRMED booking.
C2_AtMostOneConfirmedPerSeat ==
    (batch = NoBatch /\ InFlight = {}) =>
        \A b \in Buses : \A s \in Seats : \A d \in Days :
            Cardinality(ConfirmedOnDay(ledger, b, s, d)) <= 1

\* C3: create_booking is admitted exactly when no CONFIRMED booking exists
\* for the same bus, seat and calendar day: if one exists the call returns
\* the seat-conflict error and the ledger is unchanged, otherwise it appends
\* one CONFIRMED booking for that user, bus and seat.
C3_AdmittedExactlyWhenFree ==
    [][\A u \in Users : \A b \in Buses : \A s \in Seats :
        CreateBooking(u, b, s, "Uttara", "Farmgate",
                      IntPrice(DEFAULT_TICKET_PRICE), "ok") =>
            IF ConfirmedOnDay(ledger, b, s, DayOf(now)) # {}
            THEN /\ ledger' = ledger
                 /\ ret'.booking = 0
                 /\ ret'.error = MsgAlreadyBooked(s)
            ELSE /\ ret'.booking \notin DOMAIN ledger
                 /\ DOMAIN ledger' = DOMAIN ledger \cup {ret'.booking}
                 /\ \A i \in DOMAIN ledger : ledger'[i] = ledger[i]
                 /\ ledger'[ret'.booking].user_id = u
                 /\ ledger'[ret'.booking].bus_id = b
                 /\ ledger'[ret'.booking].seat_number = s
                 /\ ledger'[ret'.booking].status = BOOKING_STATUS_CONFIRMED
      ]_vars

\* C4: every booking in the ledger has its source and destination on the
\* route of its bus, the source before the destination (create_booking
\* rejects every other trip).
C4_EveryBookingOnRoute ==
    \A i \in DOMAIN ledger :
        is_valid_trip(Route(ledger[i].bus_id), ledger[i].source,
                      ledger[i].destination)

\* C5: create_multiple_bookings with more than 5 seat labels returns an
\* empty success list and one error, starts no attempt and leaves the
\* ledger unchanged, whatever the ledger holds.
C5_OversizeBatchRejected ==
    [][( /\ ret'.op = "create_multiple_bookings"
         /\ Len(ret'.seat_numbers) > MAX_SEATS_PER_BOOKING )
        => /\ batch = NoBatch
           /\ batch' = NoBatch
           /\ ledger' = ledger
           /\ nextId' = nextId
           /\ ret'.successful_bookings = <<>>
           /\ Len(ret'.errors) = 1
      ]_vars

\* an oversize batch was rejected while the ledger held bookings
C5_Witness ==
    /\ ret.op = "create_multiple_bookings"
    /\ Len(ret.seat_numbers) > MAX_SEATS_PER_BOOKING
    /\ ret.successful_bookings = <<>>
    /\ DOMAIN ledger # {}

\* C6: in a batch of at most 5 labels that names a label more than once,
\* only the first occurrence is confirmed: no two bookings confirmed by one
\* batch have the same seat label on the same calendar day.
C6_DuplicateLabelConfirmedOnce ==
    ( /\ ret.op = "create_multiple_bookings"
      /\ Len(ret.seat_numbers) <= MAX_SEATS_PER_BOOKING )
    => \A m \in 1..Len(ret.successful_bookings) :
       \A n \in 1..Len(ret.successful_bookings) :
            LET x == ledger[ret.successful_bookings[m]]
                y == ledger[ret.successful_bookings[n]]
            IN  (m # n /\ DayOf(x.date) = DayOf(y.date))
                    => x.seat_number # y.seat_number

\* labels is an order-preserving merge of the sequences oks and fails
RECURSIVE Interleaves(_, _, _)
Interleaves(labels, oks, fails) ==
    IF labels = <<>>
    THEN oks = <<>> /\ fails = <<>>
    ELSE \/ /\ oks # <<>>
            /\ Head(oks) = Head(labels)
            /\ Interleaves(Tail(labels), Tail(oks), fails)
         \/ /\ fails # <<>>
            /\ Head(fails) = Head(labels)
            /\ Interleaves(Tail(labels), oks, Tail(fails))

\* the results collected for the first labels of a batch of at most 5:
\* one entry per label, in list order, in one list or the other, and every
\* success is a CONFIRMED booking of the ledger for that label
BatchEntriesSound(seat_numbers, successful_bookings, errors) ==
    /\ \A m \in 1..Len(successful_bookings) :
        /\ successful_bookings[m] \in DOMAIN ledger
        /\ ledger[successful_bookings[m]].status = BOOKING_STATUS_CONFIRMED
    /\ Interleaves(
        SubSeq(seat_numbers, 1, Len(successful_bookings) + Len(errors)),
        [m \in 1..Len(successful_bookings) |->
            ledger[successful_bookings[m]].seat_number],
        [m \in 1..Len(errors) |-> errors[m][2]])

\* C7: a batch of n <= 5 labels attempts every label in list order: each
\* label gives exactly one entry, a success or an error (successes + errors
\* = n), a failure does not end the batch, and the bookings confirmed
\* earlier in the batch stay CONFIRMED when a later label fails.
C7_EveryLabelOneEntry ==
    /\ ( /\ ret.op = "create_multiple_bookings"
         /\ Len(ret.seat_numbers) <= MAX_SEATS_PER_BOOKING )
       => /\ Len(ret.successful_bookings) + Len(ret.errors)
                = Len(ret.seat_numbers)
          /\ BatchEntriesSound(ret.seat_numbers, ret.successful_bookings,
                               ret.errors)
    /\ batch # NoBatch
       => /\ Len(batch[1].successful_bookings) + Len(batch[1].errors)
                < Len(batch[1].seat_numbers)
          /\ BatchEntriesSound(batch[1].seat_numbers,
                               batch[1].successful_bookings, batch[1].errors)

\* a batch returned in which a label failed between two that were confirmed
C7_Witness ==
    /\ ret.op = "create_multiple_bookings"
    /\ ret.seat_numbers = <<"A1", "A1", "K5">>
    /\ Len(ret.successful_bookings) = 2
    /\ Len(ret.errors) = 1
    /\ \A m \in 1..2 :
        ledger[ret.successful_bookings[m]].status = BOOKING_STATUS_CONFIRMED

\* C8: cancel_booking and delete_booking called with a user id that is not
\* the owner's fail with the message given for a booking that does not
\* exist, and leave the ledger as it was.
C8_NonOwnerDenied ==
    [][( /\ ret' # ret
         /\ ret'.op \in {"cancel_booking", "delete_booking"}
         /\ \/ ret'.booking_id \notin DOMAIN ledger
            \/ ledger[ret'.booking_id].user_id # ret'.user_id )
        => /\ ledger' = ledger
           /\ ret'.success = FALSE
           /\ ret'.error = MsgNotFound
      ]_vars

\* a cancel_booking by someone who is not the owner of an existing booking
\* has returned
C8_Witness ==
    /\ ret.op = "cancel_booking"
    /\ ret.success = FALSE
    /\ ret.booking_id \in DOMAIN ledger
    /\ ledger[ret.booking_id].user_id # ret.user_id
    /\ ledger[ret.booking_id].status = BOOKING_STATUS_CONFIRMED

\* C9: the owner's cancel_booking on a CONFIRMED booking keeps the record
\* with status CANCELLED and every other field as it was; the owner's
\* delete_booking removes the record; no other booking changes.
C9_CancelAndDeleteFrame ==
    [][( /\ ret' # ret
         /\ ret'.op \in {"cancel_booking", "delete_booking"}
         /\ ret'.booking_id \in DOMAIN ledger
         /\ ledger[ret'.booking_id].user_id = ret'.user_id )
        => LET i == ret'.booking_id
           IN  /\ ret'.success = TRUE
               /\ \A j \in DOMAIN ledger \ {i} :
                    j \in DOMAIN ledger' /\ ledger'[j] = ledger[j]
               /\ ( /\ ret'.op = "cancel_booking"
                    /\ ledger[i].status = BOOKING_STATUS_CONFIRMED )
                  => /\ DOMAIN ledger' = DOMAIN ledger
                     /\ ledger'[i] = [ledger[i] EXCEPT
                            !.status = BOOKING_STATUS_CANCELLED]
               /\ ret'.op = "delete_booking"
                  => DOMAIN ledger' = DOMAIN ledger \ {i}
      ]_vars

\* the owner has cancelled one booking while another one is CONFIRMED
C9_Witness ==
    /\ ret.op = "cancel_booking"
    /\ ret.success = TRUE
    /\ ret.booking_id \in DOMAIN ledger
    /\ ledger[ret.booking_id].user_id = ret.user_id
    /\ ledger[ret.booking_id].status = BOOKING_STATUS_CANCELLED
    /\ \E j \in DOMAIN ledger :
        /\ j # ret.booking_id
        /\ ledger[j].status = BOOKING_STATUS_CONFIRMED

AllSeatLabels ==
    <<"A1", "A2", "A3", "A4", "B1", "B2", "B3", "B4", "C1", "C2", "C3", "C4",
      "D1", "D2", "D3", "D4", "E1", "E2", "E3", "E4", "F1", "F2", "F3", "F4",
      "G1", "G2", "G3", "G4", "H1", "H2", "H3", "H4", "I1", "I2", "I3", "I4",
      "J1", "J2", "J3", "J4", "K1", "K2", "K3", "K4", "K5">>

\* C11: the seat layout of any bus for any date, over any ledger (also one
\* holding labels outside the layout, and for buses declaring 40 seats),
\* has exactly 45 entries with pairwise distinct labels in the order A1..A4,
\* B1..B4, ..., J1..J4, K1..K5, and isLastRow is true exactly for the five
\* K entries.
C11_LayoutIsTheFixed45 ==
    ret.op = "get_seat_layout" =>
        /\ Len(ret.layout) = Len(AllSeatLabels)
        /\ Len(ret.layout) = Len(SEAT_ROWS) * SEATS_PER_ROW + LAST_ROW_SEATS
        /\ \A k \in 1..Len(ret.layout) :
            /\ ret.layout[k].number = AllSeatLabels[k]
            /\ ret.layout[k].isLastRow <=> ret.layout[k].row = LAST_ROW
            /\ ret.layout[k].isLastRow <=>
                    k > Len(ret.layout) - LAST_ROW_SEATS
        /\ \A k \in 1..Len(ret.layout) : \A m \in 1..Len(ret.layout) :
            k # m => ret.layout[k].number # ret.layout[m].number

\* the layout was read for a bus declaring 40 seats that has a CONFIRMED
\* booking of a label outside the layout on the day asked for
C11_Witness ==
    /\ ret.op = "get_seat_layout"
    /\ fleet[ret.bus_id].total_seats = DEFAULT_TOTAL_SEATS
    /\ \E i \in DOMAIN ledger :
        /\ ledger[i].bus_id = ret.bus_id
        /\ ledger[i].seat_number = "Z9"
        /\ ledger[i].status = BOOKING_STATUS_CONFIRMED
        /\ InDateWindow(ledger[i].date, ret.date_str)
    /\ \E i \in DOMAIN ledger : ledger[i].seat_number = "A1"

\* C16: is_valid_trip(source, destination) is true exactly when the route
\* has positions i < j with route[i] = source and route[j] = destination,
\* also for routes in which a stop name comes more than once.
C16_ValidIffOrderedPair ==
    ret.op = "is_valid_trip" =>
        ( ret.result <=>
            \E i \in 1..Len(ret.route) : \E j \in 1..Len(ret.route) :
                /\ i < j
                /\ ret.route[i] = ret.source
                /\ ret.route[j] = ret.destination )

\* C17: every bus stored through create_bus or update_bus has a route with
\* at least 2 distinct stops (a route such as [Uttara, Uttara] is rejected).
C17_RoutesHaveTwoDistinctStops ==
    \A b \in DOMAIN fleet :
        Cardinality({fleet[b].route[i] : i \in 1..Len(fleet[b].route)}) >= 2

\* the characters of a name that are not white space: a name is 2
\* characters or more after trimming exactly when it has 2 of them
InkOf(name) == {i \in 1..Len(name) : ~IsSpace(name[i])}

\* the price is not a number greater than 0
NotAPositiveNumber(price) ==
    CASE price.kind = "int" -> price.v <= 0
      [] price.kind = "float" -> price.num <= 0
      [] price.kind = "str" -> price.text \in OtherTexts
      [] OTHER -> TRUE

C19_DriverRefIsADriver ==
    \A b \in DOMAIN fleet :
        \/ fleet[b].driver_id = None
        \/ /\ fleet[b].driver_id \in DOMAIN profiles
           /\ profiles[fleet[b].driver_id] = DRIVER_ROLE

\* C14: search_buses(source, destination) returns exactly the buses whose
\* status is ACTIVE and for which is_valid_trip(source, destination) holds,
\* each once; a bus in MAINTENANCE or DECOMMISSIONED status is never
\* returned, whatever its route.
C14_SearchReturnsActiveValidTrips ==
    ret.op = "search_buses" =>
        /\ {ret.buses[k] : k \in 1..Len(ret.buses)} =
                {b \in DOMAIN fleet :
                    /\ fleet[b].status = BUS_STATUS_ACTIVE
                    /\ is_valid_trip(fleet[b].route, ret.source,
                                     ret.destination)}
        /\ \A k \in 1..Len(ret.buses) : \A m \in 1..Len(ret.buses) :
                k # m => ret.buses[k] # ret.buses[m]
        /\ \A k \in 1..Len(ret.buses) :
                fleet[ret.buses[k]].status \notin
                    {BUS_STATUS_MAINTENANCE, BUS_STATUS_DECOMMISSIONED}

\* a search returned one bus while another bus that makes the trip is in
\* maintenance
C14_Witness ==
    /\ ret.op = "search_buses"
    /\ Len(ret.buses) = 1
    /\ \E b \in DOMAIN fleet :
        /\ fleet[b].status = BUS_STATUS_MAINTENANCE
        /\ is_valid_trip(fleet[b].route, ret.source, ret.destination)

\* C15: a booking request for a bus whose status is MAINTENANCE or
\* DECOMMISSIONED, or for a bus id that does not exist, creates no booking:
\* every booking added to the ledger is for a bus that is ACTIVE when the
\* booking is created.
C15_OnlyActiveBusesBooked ==
    [][\A i \in DOMAIN ledger' \ DOMAIN ledger :
            /\ ledger'[i].bus_id \in DOMAIN fleet
            /\ fleet[ledger'[i].bus_id].status = BUS_STATUS_ACTIVE
      ]_vars

\* what the caller of an operation can tell a failure by: an error message
\* or a False for the operations that return one, and for the operations
\* that return a list, not getting one that reads as an answer
ReportsFailure(r) ==
    CASE r.op = "create_booking" -> r.booking = 0 /\ r.error # <<>>
      [] r.op \in {"cancel_booking", "delete_booking"} ->
            ~r.success /\ r.error # ""
      [] r.op = "get_seat_layout" -> Len(r.layout) # Len(AllSeatLabels)
      [] r.op = "get_user_bookings" -> r.bookings \notin SUBSET Ids
      [] r.op = "search_buses" ->
            \E k \in 1..Len(r.buses) : r.buses[k] \notin DOMAIN fleet
      [] OTHER -> TRUE

\* C20: when a call to the store raises during an operation (occupancy
\* query of the seat layout, ownership lookup, booking insert, cancel,
\* delete, bus read), the operation reports a failure to its caller and
\* never returns what reads as a successful answer, such as a seat layout
\* with every seat free or an empty list of bookings.
C20_StoreFailureReported ==
    ( /\ ret.op \in {"create_booking", "cancel_booking", "delete_booking",
                      "get_seat_layout", "get_user_bookings", "search_buses"}
      /\ ret.store = "error" )
    => ReportsFailure(ret)

\* the role each portal is for
PortalRole(portal) ==
    CASE portal = "user" -> USER_ROLE
      [] portal = "driver" -> DRIVER_ROLE
      [] portal = "admin" -> ADMIN_ROLE

\* C12: a login at a portal succeeds only for an account whose role is the
\* portal's, and a failed login logs nobody in and writes nothing; an
\* endpoint of a portal called by a logged-in user of another role answers
\* with a redirect or 403 and writes nothing; so bookings change only for
\* a USER, buses and accounts only for an ADMIN.
C12_PortalsAdmitOnlyTheirRole ==
    [][/\ (ret'.op = "login" /\ ret'.user # None)
            => /\ ret'.portal_type \in Portals
               /\ profiles[ret'.user] = PortalRole(ret'.portal_type)
               /\ session' = ret'.user
       /\ (ret'.op = "login" /\ ret'.user = None)
            => /\ session' = session
               /\ UNCHANGED <<ledger, fleet, profiles>>
       /\ (ret'.op = "endpoint"
            /\ profiles[ret'.user] # PortalRole(ret'.portal))
            => /\ ret'.status \in {HttpRedirect, HttpForbidden}
               /\ UNCHANGED <<ledger, fleet, profiles, session>>
       /\ ledger' # ledger
            => session # None /\ profiles[session] = USER_ROLE
       /\ (fleet' # fleet \/ profiles' # profiles)
            => session # None /\ profiles[session] = ADMIN_ROLE
      ]_vars

\* a driver has been turned away from the admin's bus creation, after a
\* passenger booked and the admin changed a bus
C12_Witness ==
    /\ ret.op = "endpoint" /\ ret.portal = "admin"
    /\ ret.name = "bus/create" /\ ret.status = HttpForbidden
    /\ profiles[ret.user] = DRIVER_ROLE
    /\ ledger # << >>
    /\ fleet # SeedFleet

\* C13: register creates accounts of role USER only; an account of role
\* DRIVER comes only from the admin's create-driver endpoint called by a
\* logged-in ADMIN; no step creates an account of role ADMIN, and no step
\* changes the role of an account.
C13_AccountRoles ==
    [][/\ \A a \in DOMAIN profiles' \ DOMAIN profiles :
            /\ profiles'[a] \in {USER_ROLE, DRIVER_ROLE}
            /\ ret'.op = "register" => profiles'[a] = USER_ROLE
            /\ profiles'[a] = DRIVER_ROLE
                 => /\ ret'.op = "create_driver"
                    /\ session # None
                    /\ profiles[session] = ADMIN_ROLE
       /\ \A a \in DOMAIN profiles :
            a \in DOMAIN profiles' /\ profiles'[a] = profiles[a]
      ]_vars

\* a visitor has registered, with ADMIN in the form, and the admin has
\* created a driver
C13_Witness ==
    /\ ret.op = "register" /\ ret.user # None
    /\ profiles[ret.user] = USER_ROLE
    /\ \E a \in DOMAIN profiles \ DOMAIN SeedProfiles :
         profiles[a] = DRIVER_ROLE

\* C23: create_booking returns a booking and no error, or no booking and
\* an error message, and never raises, whatever the price and the store;
\* create_multiple_bookings always returns its pair of lists.
C23_ErrorsAreValues ==
    /\ ret.op \in {"create_booking", "create_multiple_bookings"}
         => "raises" \notin DOMAIN ret
    /\ (ret.op = "create_booking" /\ "raises" \notin DOMAIN ret)
         => (ret.booking # 0) = (ret.error = <<>>)

\* C21: a booking that is CANCELLED is, after any step of create_booking,
\* create_multiple_bookings, cancel_booking or delete_booking, either
\* still in the ledger with status CANCELLED or deleted; it is never
\* CONFIRMED again.
C21_CancelledIsTerminal ==
    [][\A i \in DOMAIN ledger :
          ledger[i].status = BOOKING_STATUS_CANCELLED
            => \/ i \notin DOMAIN ledger'
               \/ ledger'[i].status = BOOKING_STATUS_CANCELLED
      ]_vars

\* a seat list has been booked, one of its seats the seat of a booking
\* cancelled before, which is CANCELLED still
C21_Witness ==
    /\ ret.op = "create_multiple_bookings"
    /\ \E i \in DOMAIN ledger, k \in 1..Len(ret.successful_bookings) :
        /\ ledger[i].status = BOOKING_STATUS_CANCELLED
        /\ ret.successful_bookings[k] \in DOMAIN ledger
        /\ ledger[ret.successful_bookings[k]].seat_number
             = ledger[i].seat_number
        /\ DayOf(ledger[ret.successful_bookings[k]].date)
             = DayOf(ledger[i].date)

\* C22: the owner's cancel_booking on a booking that is CANCELLED returns
\* success and leaves the ledger as it is.
C22_CancelTwiceIsCancelOnce ==
    [][( /\ ret' # ret
         /\ ret'.op = "cancel_booking"
         /\ ret'.booking_id \in DOMAIN ledger
         /\ ledger[ret'.booking_id].user_id = ret'.user_id
         /\ ledger[ret'.booking_id].status = BOOKING_STATUS_CANCELLED )
        => /\ ret'.success = TRUE
           /\ ledger' = ledger
      ]_vars

\* the owner has cancelled a booking that was CANCELLED
C22_Witness ==
    /\ ret.op = "cancel_booking"
    /\ ret.success = TRUE
    /\ ret.was = BOOKING_STATUS_CANCELLED
    /\ ret.booking_id \in DOMAIN ledger
    /\ ledger[ret.booking_id].status = BOOKING_STATUS_CANCELLED

\* C24: every booking in the ledger has a seat label of the 45-label
\* layout, so no bus has more than 45 CONFIRMED bookings on one day.
C24_SeatLabelsInLayout ==
    /\ \A i \in DOMAIN ledger :
         \E k \in 1..Len(AllSeatLabels) :
            ledger[i].seat_number = AllSeatLabels[k]
    /\ \A b \in Buses, d \in LayoutDates :
         Cardinality({i \in DOMAIN ledger :
                        /\ ledger[i].bus_id = b
                        /\ ledger[i].status = BOOKING_STATUS_CONFIRMED
                        /\ DayOf(ledger[i].date) = DayOf(d)})
            <= Len(AllSeatLabels)

\* C25: the price of every booking created through POST /user/book is the
\* ticket price the booked bus has when the booking is made, a positive
\* integer, whatever price the request carries.
C25_BookedAtTheBusPrice ==
    [][\A i \in DOMAIN ledger' \ DOMAIN ledger :
          /\ ledger'[i].bus_id \in DOMAIN fleet
          /\ ledger'[i].price = fleet[ledger'[i].bus_id].price
          /\ ledger'[i].price > 0
      ]_vars

\* C26: a cancel_booking that returns success leaves the booking in the
\* ledger with status CANCELLED, and a delete_booking that returns success
\* has itself removed the record, also when the lookup and the write of
\* the request interleave with another request of the owner on the same
\* booking.
C26_SuccessMeansDone ==
    [][\A p \in Procs :
          (inflight[p] # <<>> /\ inflight'[p] = <<>> /\ ret'.success)
            => LET r == inflight[p][1]
               IN  /\ r.op = "cancel_booking"
                        => /\ r.booking_id \in DOMAIN ledger'
                           /\ ledger'[r.booking_id].status
                                = BOOKING_STATUS_CANCELLED
                   /\ r.op = "delete_booking"
                        => /\ r.booking_id \in DOMAIN ledger
                           /\ r.booking_id \notin DOMAIN ledger'
      ]_vars

\* C27: creating a driver from the admin portal leaves the tokens the
\* admin's session holds as they were.
C27_CreateDriverKeepsTokens ==
    [][ret'.op = "create_driver" => tokens' = tokens]_vars

\* C28: a login denied for the role leaves the saved tokens as they were
\* and logs nobody in.
C28_DeniedLoginLeavesNoTokens ==
    [][( /\ ret'.op = "login"
         /\ ret'.user = None
         /\ ret'.error = MsgAccessDenied(ret'.portal_type) )
        => /\ tokens' = tokens
           /\ session' = None
      ]_vars

\* C29: after a successful POST /user/cancel/<booking_id> the ledger holds
\* no record with that id, and in no state reached through the endpoints
\* is a booking CANCELLED.
C29_CancelEndpointDeletes ==
    /\ \A i \in DOMAIN ledger :
         ledger[i].status # BOOKING_STATUS_CANCELLED
    /\ (ret.op \in {"cancel_booking", "delete_booking"} /\ ret.success)
         => ret.booking_id \notin DOMAIN ledger

\* a passenger has cancelled a booking of theirs through the endpoint
C29_Witness ==
    /\ ret.op = "delete_booking"
    /\ ret.success = TRUE
    /\ ret.user_id = session
    /\ ret.booking_id < nextId
    /\ ret.booking_id \notin DOMAIN ledger

\* C30: when update_bus returns a bus, the stored bus has the requested
\* name, route, price and status, and when assign_driver returns True, the
\* stored bus has the requested driver.
C30_SuccessMeansStored ==
    /\ (ret.op = "update_bus" /\ ret.bus # None)
         => /\ ret.bus \in DOMAIN fleet
            /\ fleet[ret.bus].name = ret.name
            /\ fleet[ret.bus].route = ret.route
            /\ fleet[ret.bus].price = PyInt(ret.price).v
    /\ (ret.op = "assign_driver" /\ ret.success)
         => /\ ret.bus_id \in DOMAIN fleet
            /\ fleet[ret.bus_id].driver_id = ret.driver_id

====
